---------------------------- MODULE Spec2Model ----------------------------
(***************************************************************************)
(* Model of the message-step processor of the journey engine               *)
(* (MessageStepProcessor, queue '{message.step}').                         *)
(*                                                                         *)
(* Instants are integers: milliseconds since 00:00:00.000 UTC of day 0.    *)
(* A time of day "HH:MM" is the pair <<HH, MM>>.                           *)
(***************************************************************************)
EXTENDS Integers, Sequences, FiniteSets, TLC

(***************************************************************************)
(* Units of the Date arithmetic used by the handler.                       *)
(***************************************************************************)
MsPerMin == 60000
MsPerHour == 3600000
MsPerDay == 86400000
MinPerDay == 1440

\* "let requeueTime: Date;" before any assignment
NoTime == -1

(***************************************************************************)
(* Bounds of the model.                                                    *)
(***************************************************************************)
\* days covered by the instants of the gate specification: 0..MaxDay
MaxDay == 1

(***************************************************************************)
(* Date helpers                                                            *)
(***************************************************************************)
getUTCHours(t) == (t % MsPerDay) \div MsPerHour

getUTCMinutes(t) == (t % MsPerHour) \div MsPerMin

\* Intl.DateTimeFormat(undefined, {hour:'2-digit', minute:'2-digit',
\* hourCycle:'h24', timeZone:'UTC'}).format(t): hour cycle h24 counts the
\* hours 1..24, so the hour after midnight is written 24, not 00.
formatter_format(t) ==
    << IF getUTCHours(t) = 0 THEN 24 ELSE getUTCHours(t), getUTCMinutes(t) >>

\* "HH:MM" as minutes; parseInt of the two fields
ToMinutes(hm) == hm[1] * 60 + hm[2]

\* convertTimeToUTC(time, offset): local time of day to UTC time of day
convertTimeToUTC(hm, offset) ==
    LET m == (ToMinutes(hm) - offset) % MinPerDay
    IN  << m \div 60, m % 60 >>

\* isWithinInterval(start, end, check): check in [start, end), a window
\* whose end is before its start wraps past midnight
isWithinInterval(start, end, check) ==
    LET s == ToMinutes(start)
        e == ToMinutes(end)
        c == ToMinutes(check)
    IN  IF s <= e THEN s <= c /\ c < e
                  ELSE c >= s \/ c < e

\* requeueTime.setUTCHours(h, m, 0, 0)
setUTCHours(t, h, m) == (t - (t % MsPerDay)) + h * MsPerHour + m * MsPerMin

\* requeueTime.setDate(requeueTime.getDate() + 1)
setDatePlusOne(t) == t + MsPerDay

\* a wrong variant of setMinutesPlusOne: rounds up to the minute boundary
setMinutesPlusOne_boundary(t) == t + (MsPerMin - (t % MsPerMin))

\* requeueTime.setMinutes(requeueTime.getMinutes() + 1)
setMinutesPlusOne(t) == t + MsPerMin

(***************************************************************************)
(* Journey settings and the rate-limit store                               *)
(***************************************************************************)
\* JourneySettingsQuietFallbackBehavior, plus an unset value
FallbackBehaviors == {"NextAvailableTime", "Abort", "Unset"}

\* journeysService.rateLimitByCustomersMessagedEnabled(journey)
rateLimitByCustomersMessagedEnabled(js) == << js.maxEntries.enabled, js.maxEntries.max >>

\* journeysService.rateLimitByCustomersMessaged(owner, journey, session):
\* TRUE when the journey's count of distinct customers messaged reached the cap
rateLimitByCustomersMessaged(js, count) == count >= js.maxEntries.max

\* journeysService.rateLimitByMinuteEnabled(journey)
rateLimitByMinuteEnabled(js) == << js.maxMessageSends.enabled, js.maxMessageSends.max >>

\* the per-minute counter is a record [minute, count]; a count of an earlier
\* minute has expired
CountInMinute(counter, t) ==
    IF counter.minute = t \div MsPerMin THEN counter.count ELSE 0

\* journeysService.rateLimitByMinute(owner, journey): TRUE when the sends
\* counted in the current minute reached the cap
rateLimitByMinute(js, counter, t) == CountInMinute(counter, t) >= js.maxMessageSends.max

\* journeysService.rateLimitByMinuteIncrement(owner, journey)
rateLimitByMinuteIncrement(counter, t) ==
    [minute |-> t \div MsPerMin, count |-> CountInMinute(counter, t) + 1]

(***************************************************************************)
(* The gate, stage by stage.  A stage maps the handler's locals            *)
(* [type, requeueTime] to their next value.                                *)
(***************************************************************************)
GateStart == [type |-> "SEND", requeueTime |-> NoTime]

\* quiet hours stage
QuietHoursStage(g, js, tzOffset, t) ==
    IF js.quietHours.enabled
    THEN LET quietHours   == js.quietHours
             utcNowString == formatter_format(t)
             utcStartTime == convertTimeToUTC(quietHours.startTime, tzOffset)
             utcEndTime   == convertTimeToUTC(quietHours.endTime, tzOffset)
             isQuietHour  == isWithinInterval(utcStartTime, utcEndTime, utcNowString)
             atEnd        == setUTCHours(t, utcEndTime[1], utcEndTime[2])
         IN  IF isQuietHour
             THEN [type |-> IF quietHours.fallbackBehavior = "Abort"
                            THEN "QUIET_ABORT" ELSE "QUIET_REQUEUE",
                   requeueTime |-> IF atEnd < t THEN setDatePlusOne(atEnd) ELSE atEnd]
             ELSE g
    ELSE g

\* a wrong variant of CustomersMessagedQueried: the store is asked whatever
\* the outcome so far
CustomersMessagedQueried_always(g, js) == rateLimitByCustomersMessagedEnabled(js)[1]

\* the handler awaits rateLimitByCustomersMessaged for this job
CustomersMessagedQueried(g, js) ==
    g.type = "SEND" /\ rateLimitByCustomersMessagedEnabled(js)[1]

\* the handler awaits rateLimitByMinute for this job
ByMinuteQueried(g, js) ==
    g.type = "SEND" /\ rateLimitByMinuteEnabled(js)[1]

\* 1. rate limiting by unique customers messaged
CustomersMessagedStage(g, js, count) ==
    IF CustomersMessagedQueried(g, js)
       /\ rateLimitByCustomersMessaged(js, count)
    THEN [g EXCEPT !.type = "LIMIT_HOLD"]
    ELSE g

\* 2. rate limiting by number of messages sent in the minute
ByMinuteStage(g, js, counter, t) ==
    IF ByMinuteQueried(g, js)
       /\ rateLimitByMinute(js, counter, t)
    THEN [type |-> "LIMIT_REQUEUE", requeueTime |-> setMinutesPlusOne(t)]
    ELSE g

\* a wrong variant of MockStage: a template with webhookData is mocked too
MockStage_mocksWebhook(g, mock, template) ==
    IF g.type = "SEND" /\ mock /\ template.found
    THEN [g EXCEPT !.type = "MOCK_SEND"]
    ELSE g

\* 3. mock send: MOCK_MESSAGE_SEND === 'true', a template, no webhookData
MockStage(g, mock, template) ==
    IF g.type = "SEND" /\ mock /\ template.found /\ ~template.webhookData
    THEN [g EXCEPT !.type = "MOCK_SEND"]
    ELSE g


(***************************************************************************)
(* Bounds and configurations of the worker model                           *)
(***************************************************************************)
\* jobs the environment puts into '{message.step}': advancements admitted by
\* the upstream steps, and stalled jobs the queue hands out a second time
MaxJobs == 2
\* clock steps
MaxTick == 1

Workers == {"w1", "w2"}
Customers == {"c1", "c2"}
\* customers and workers are interchangeable: the first advancement is this
\* customer's, and the second worker takes a job only while the first is busy
FirstCustomer == "c1"
FirstWorker == "w1"

\* first instant of the worker model, 05:59:30.000 UTC of day 0, and its step
BaseTime == 359 * MsPerMin + 30000
TickMs == 60 * 1000

MessageStep == 1
DestinationStep == 2
LastStep == 3
NoStep == 0

\* a wrong variant of TimerTypes: TIME_DELAY is chained like any other step
TimerTypes_withoutDelay == {"TIME_WINDOW", "WAIT_UNTIL_BRANCH"}
\* the step types the customer rests at: nextStep.type tested at 682-684
TimerTypes == {"TIME_DELAY", "TIME_WINDOW", "WAIT_UNTIL_BRANCH"}
UnimplementedTypes == {"AB_TEST", "RANDOM_COHORT_BRANCH", "TRACKER", "ATTRIBUTE_BRANCH"}

Limit(enabled, max) == [enabled |-> enabled, max |-> max]
QuietOff == [enabled |-> FALSE, startTime |-> <<0, 0>>, endTime |-> <<0, 0>>,
             fallbackBehavior |-> "Unset"]
QuietNight(fallback) == [enabled |-> TRUE, startTime |-> <<22, 0>>, endTime |-> <<6, 0>>,
                         fallbackBehavior |-> fallback]
Settings(q, e, m) == [quietHours |-> q, maxEntries |-> e, maxMessageSends |-> m]
\* quiet hours and both limits disabled
NoLimits == Settings(QuietOff, Limit(FALSE, 1), Limit(FALSE, 1))
\* workspace.emailProvider is not 'free3': the free e-mail quota is not read
NoQuota == -1
Config(js, count, mock, dest) ==
    [js |-> js, tz |-> 0, messaged |-> count, mock |-> mock,
     template |-> [found |-> TRUE, webhookData |-> FALSE, type |-> "email"],
     selectedPlatform |-> "All", destType |-> dest,
     freeEmailsCount |-> NoQuota, ping |-> "unset"]
\* the same journey in a workspace on the free e-mail plan with n e-mails left
Free3(config, n) == [config EXCEPT !.freeEmailsCount = n]

\* MOCK_MESSAGE_SEND_URL: "unset", or a URL that is "invalid" (new URL
\* throws), whose server answers ("ok"), or whose connection fails ("refused")
PingUrls == {"unset", "invalid", "ok", "refused"}
\* the same journey in a process with this diagnostic URL
Pinging(config, url) == [config EXCEPT !.ping = url]
\* the same journey with a template that has webhookData
WithWebhook(config) == [config EXCEPT !.template.webhookData = TRUE]
\* the same journey with a template of this type, and its step's platform
WithTemplate(config, type, platform) ==
    [config EXCEPT !.template.type = type, !.selectedPlatform = platform]

\* what a send hands over, in order: a message to the sender per channel, or
\* a job to '{webhooks}'; nothing for a webhook template without webhookData,
\* for a push step whose platform has no case and for a type without a case
Channels(template, platform) ==
    CASE template.type = "email" -> << "email" >>
      [] template.type = "push" /\ platform = "All" -> << "android", "ios" >>
      [] template.type = "push" /\ platform = "iOS" -> << "ios" >>
      [] template.type = "push" /\ platform = "Android" -> << "android" >>
      [] template.type = "sms" -> << "sms" >>
      [] template.type = "webhook" /\ template.webhookData -> << "webhook" >>
      [] OTHER -> << >>

AllChannels == {"email", "android", "ios", "sms", "webhook"}

\* quiet hours and both limits disabled, the message step leads to a TimeDelay
DelayConfig ==
    Config(Settings(QuietOff, Limit(FALSE, 1), Limit(FALSE, 1)), 0, FALSE, "TIME_DELAY")

\* the journeys the worker model runs: settings snapshot, customers already
\* messaged, mock flag, template and type of the message step's destination
\* ("NONE": no such step)
Configs ==
    { Config(Settings(QuietOff, Limit(FALSE, 1), Limit(FALSE, 1)), 0, FALSE, "EXIT"),
      Config(Settings(QuietOff, Limit(FALSE, 1), Limit(TRUE, 1)), 0, FALSE, "EXIT"),
      Config(Settings(QuietOff, Limit(TRUE, 1), Limit(FALSE, 1)), 0, FALSE, "TIME_DELAY"),
      Config(Settings(QuietOff, Limit(TRUE, 1), Limit(FALSE, 1)), 1, FALSE, "TIME_DELAY"),
      Config(Settings(QuietNight("NextAvailableTime"), Limit(FALSE, 1), Limit(FALSE, 1)),
             0, FALSE, "EXIT"),
      Config(Settings(QuietOff, Limit(FALSE, 1), Limit(FALSE, 1)), 0, FALSE, "MESSAGE"),
      Config(Settings(QuietNight("Abort"), Limit(FALSE, 1), Limit(FALSE, 1)),
             0, FALSE, "NONE"),
      Config(Settings(QuietOff, Limit(FALSE, 1), Limit(TRUE, 1)), 0, TRUE, "AB_TEST"),
      Free3(Config(Settings(QuietOff, Limit(FALSE, 1), Limit(FALSE, 1)), 0, FALSE, "EXIT"),
            0),
      DelayConfig,
      Config(Settings(QuietNight("Abort"), Limit(FALSE, 1), Limit(FALSE, 1)),
             0, FALSE, "EXIT") }

(***************************************************************************)
(* State                                                                   *)
(***************************************************************************)
VARIABLES
    now,              \* the clock
    ticks,            \* clock steps taken
    cfg,              \* the journey: settings, mock flag, template, destination
    isStopped,        \* journey.isStopped in the journey store
    isPaused,         \* journey.isPaused in the journey store
    freeEmailsCount,  \* workspace.freeEmailsCount in the workspace store
    delivered,        \* messages handed to a sender or to '{webhooks}', counted
                      \* per job id, step and channel
    queue,            \* jobs waiting in '{message.step}'
    otherQueue,       \* jobs handed to the queues of the other step types
    location,         \* JourneyLocation per customer: step, locked, messageSent
    customersMessaged,\* the journey's count of distinct customers messaged
    minuteCounter,    \* the journey's per-minute send counter
    pc,               \* per worker: where its handler is
    cur,              \* per worker: the handler's job, locals and effects
    admitted,         \* advancements admitted so far
    redelivered,      \* stalled jobs handed out again so far
    doneSend,         \* jobs of which a delivery returned after a send
    passes,           \* gate outcomes SEND or MOCK_SEND decided in the current minute
    sentTo,           \* customers a SEND or MOCK_SEND branch was executed for
    gpc, gin, gout    \* the gate evaluated on its own

workerVars == << queue, otherQueue, location, customersMessaged, minuteCounter,
                 pc, cur, admitted, redelivered, doneSend >>
historyVars == << passes, sentTo >>
gateVars == << gpc, gin, gout >>
sendVars == << freeEmailsCount, delivered >>
vars == << now, ticks, cfg, isStopped, isPaused, workerVars, historyVars, gateVars, sendVars >>

StepTypeOf(s) ==
    IF s = MessageStep THEN "MESSAGE"
    ELSE IF s = DestinationStep THEN cfg.destType
    ELSE "EXIT"

\* cacheService.getIgnoreError(Step, step.metadata.destination, ...)
DestinationOf(s) ==
    IF s = MessageStep THEN (IF cfg.destType = "NONE" THEN NoStep ELSE DestinationStep)
    ELSE IF s = DestinationStep THEN LastStep
    ELSE NoStep

\* an optional field of the job data that is not set
Undefined == "undefined"

\* the queue the processor consumes, and the queues it hands jobs to
MessageQueue == "{message.step}"
NoQueue == "none"

\* a wrong variant of processorMap: a Loop step's job goes to the Start queue
processorMap_loopToStart(type) ==
    CASE type = "START"             -> "{start.step}"
      [] type = "EXPERIMENT"        -> "{experiment.step}"
      [] type = "LOOP"              -> "{start.step}"
      [] type = "EXIT"              -> "{exit.step}"
      [] type = "MULTISPLIT"        -> "{multisplit.step}"
      [] type = "MESSAGE"           -> "{message.step}"
      [] type = "TIME_WINDOW"       -> "{time.window.step}"
      [] type = "TIME_DELAY"        -> "{time.delay.step}"
      [] type = "WAIT_UNTIL_BRANCH" -> "{wait.until.step}"
      [] OTHER                      -> "none"

\* processorMap[type]: the queue a job for a step of this type is added to,
\* NoQueue for the types whose entry throws 'Function not implemented.'
processorMap(type) ==
    CASE type = "START"             -> "{start.step}"
      [] type = "EXPERIMENT"        -> "{experiment.step}"
      [] type = "LOOP"              -> "{jump.to.step}"
      [] type = "EXIT"              -> "{exit.step}"
      [] type = "MULTISPLIT"        -> "{multisplit.step}"
      [] type = "MESSAGE"           -> MessageQueue
      [] type = "TIME_WINDOW"       -> "{time.window.step}"
      [] type = "TIME_DELAY"        -> "{time.delay.step}"
      [] type = "WAIT_UNTIL_BRANCH" -> "{wait.until.step}"
      [] OTHER                      -> NoQueue

\* job.data: id stands for owner, journey and session; messageSent is
\* location.messageSent; on is the queue the job was added to
NoJob == [id |-> 0, customer |-> "c1", step |-> NoStep, messageSent |-> FALSE, runAt |-> 0,
          event |-> Undefined, branch |-> Undefined, on |-> NoQueue, quota |-> NoQuota]

\* effects of one execution of the handler, counted
NoEffects == [send |-> 0, mock |-> 0, status |-> 0, increment |-> 0, requeue |-> 0,
              unlock |-> 0, enqueue |-> 0, ping |-> 0]
NoCur == [job |-> NoJob, g |-> GateStart, messageSent |-> FALSE,
          stopped |-> FALSE, paused |-> FALSE, redo |-> FALSE, did |-> NoEffects,
          quota |-> NoQuota]

NoGateIn == [js |-> Settings(QuietOff, Limit(FALSE, 1), Limit(FALSE, 1)), tz |-> 0,
             t |-> 0, count |-> 0, sends |-> 0, mock |-> FALSE, webhookData |-> FALSE,
             job |-> [customer |-> FirstCustomer, messageSent |-> FALSE,
                      event |-> Undefined]]

\* journeyLocationsService.unlock(location, step)
unlock(loc, c, s) == [loc EXCEPT ![c].locked = FALSE, ![c].step = s]

\* the handler reads the clock only in the quiet-hours and per-minute stages
ClockRead == cfg.js.quietHours.enabled \/ cfg.js.maxMessageSends.enabled

\* the customers the journey has messaged before: the store's count says how
\* many, and they are the first ones
InitiallyMessaged(c) == cfg.messaged > 0 /\ c = FirstCustomer

\* an advancement and a channel: job id, step, channel
DeliveryKeys == (0..MaxJobs) \X {MessageStep, DestinationStep} \X AllChannels

\* the state after construction, for a journey out of configs
Start(configs) ==
    /\ now = BaseTime
    /\ ticks = 0
    /\ cfg \in configs
    /\ isStopped = FALSE
    /\ isPaused = FALSE
    /\ queue = {}
    /\ otherQueue = {}
    /\ location = [c \in Customers |->
                     [step |-> NoStep, locked |-> FALSE,
                      messageSent |-> InitiallyMessaged(c)]]
    /\ customersMessaged = cfg.messaged
    /\ minuteCounter = [minute |-> 0, count |-> 0]
    /\ pc = [w \in Workers |-> "idle"]
    /\ cur = [w \in Workers |-> NoCur]
    /\ admitted = 0
    /\ redelivered = 0
    /\ doneSend = {}
    /\ passes = [minute |-> 0, count |-> 0]
    /\ sentTo = {}
    /\ gpc = "off"
    /\ gin = NoGateIn
    /\ gout = GateStart
    /\ freeEmailsCount = cfg.freeEmailsCount
    /\ delivered = [key \in DeliveryKeys |-> 0]

Init == Start(Configs)

(***************************************************************************)
(* Environment of the handler                                              *)
(***************************************************************************)
\* an upstream step locks the customer's location and adds a job for the
\* message step to '{message.step}'
Admit(c) ==
    /\ admitted + redelivered < MaxJobs
    /\ (admitted = 0 => c = FirstCustomer)
    /\ ~location[c].locked
    /\ admitted' = admitted + 1
    /\ location' = [location EXCEPT ![c].locked = TRUE, ![c].step = MessageStep]
    /\ queue' = queue \cup {[id |-> admitted + 1, customer |-> c, step |-> MessageStep,
                             messageSent |-> location[c].messageSent, runAt |-> 0,
                             event |-> IF c = FirstCustomer THEN "event" ELSE Undefined,
                             branch |-> "0", on |-> MessageQueue,
                             quota |-> freeEmailsCount]}
    /\ UNCHANGED << now, ticks, cfg, isStopped, isPaused, otherQueue, customersMessaged,
                    minuteCounter, pc, cur, redelivered, doneSend, historyVars, gateVars, sendVars >>

Tick ==
    /\ ticks < MaxTick
    /\ ClockRead
    /\ ticks' = ticks + 1
    /\ now' = now + TickMs
    /\ UNCHANGED << cfg, isStopped, isPaused, workerVars, historyVars, gateVars, sendVars >>

\* the journey is stopped (the handler never reads the flag, so the stop is
\* taken between executions only)
StopJourney ==
    /\ ~isStopped
    /\ \A w \in Workers : pc[w] = "idle"
    /\ isStopped' = TRUE
    /\ UNCHANGED << now, ticks, cfg, isPaused, workerVars, historyVars, gateVars, sendVars >>

\* stalledInterval: a job whose worker did not acknowledge it in time is made
\* available again, with the data it was enqueued with
Redeliver(w) ==
    /\ pc[w] \notin {"idle", "done", "failed"}
    /\ admitted + redelivered < MaxJobs
    /\ redelivered' = redelivered + 1
    /\ queue' = queue \cup {cur[w].job}
    /\ UNCHANGED << now, ticks, cfg, isStopped, isPaused, otherQueue, location, customersMessaged,
                    minuteCounter, pc, cur, admitted, doneSend, historyVars, gateVars, sendVars >>

\* the processor of another step type takes the job handed to it; the
\* customer comes to rest there and the location is unlocked
Downstream(j) ==
    /\ j \in otherQueue
    /\ StepTypeOf(j.step) \notin TimerTypes
    /\ otherQueue' = otherQueue \ {j}
    /\ location' = unlock(location, j.customer, j.step)
    /\ UNCHANGED << now, ticks, cfg, isStopped, isPaused, queue, customersMessaged, minuteCounter,
                    pc, cur, admitted, redelivered, doneSend, historyVars, gateVars, sendVars >>

(***************************************************************************)
(* MessageStepProcessor.process, one action per stretch between awaits     *)
(***************************************************************************)
\* a wrong variant of Dequeue: the job of a paused journey is held
Dequeue_holdsPaused(w, j) ==
    /\ pc[w] = "idle"
    /\ (w # FirstWorker => pc[FirstWorker] # "idle")
    /\ j \in queue
    /\ j.runAt <= now
    /\ queue' = queue \ {j}
    /\ cur' = [cur EXCEPT ![w] =
                 [job |-> j,
                  g |-> IF isPaused
                        THEN [type |-> "LIMIT_HOLD", requeueTime |-> NoTime]
                        ELSE CustomersMessagedStage(
                                QuietHoursStage(GateStart, cfg.js, cfg.tz, now),
                                cfg.js, customersMessaged),
                  messageSent |-> j.messageSent, stopped |-> isStopped,
                  paused |-> isPaused, quota |-> j.quota,
                  redo |-> << j.id, j.step >> \in doneSend, did |-> NoEffects]]
    /\ pc' = [pc EXCEPT ![w] = "minute"]
    /\ UNCHANGED << now, ticks, cfg, isStopped, isPaused, otherQueue, location, customersMessaged,
                    minuteCounter, admitted, redelivered, doneSend, historyVars, gateVars, sendVars >>

\* the worker takes a due job; process() starts, evaluates quiet hours and
\* awaits rateLimitByCustomersMessaged (the count it reads does not change
\* while the handler runs)
Dequeue(w, j) ==
    /\ pc[w] = "idle"
    /\ (w # FirstWorker => pc[FirstWorker] # "idle")
    /\ j \in queue
    /\ j.runAt <= now
    /\ queue' = queue \ {j}
    /\ cur' = [cur EXCEPT ![w] =
                 [job |-> j,
                  g |-> CustomersMessagedStage(
                           QuietHoursStage(GateStart, cfg.js, cfg.tz, now),
                           cfg.js, customersMessaged),
                  messageSent |-> j.messageSent, stopped |-> isStopped,
                  paused |-> isPaused, quota |-> j.quota,
                  redo |-> << j.id, j.step >> \in doneSend, did |-> NoEffects]]
    /\ pc' = [pc EXCEPT ![w] = "minute"]
    /\ UNCHANGED << now, ticks, cfg, isStopped, isPaused, otherQueue, location, customersMessaged,
                    minuteCounter, admitted, redelivered, doneSend, historyVars, gateVars, sendVars >>

\* the gate outcomes that passed, counted per calendar minute
Passed(p, g, t) ==
    IF g.type \in {"SEND", "MOCK_SEND"}
    THEN [minute |-> t \div MsPerMin, count |-> CountInMinute(p, t) + 1]
    ELSE p

\* await rateLimitByMinute, then the template lookup and the mock decision
MinuteCheck(w) ==
    LET g == MockStage(ByMinuteStage(cur[w].g, cfg.js, minuteCounter, now),
                       cfg.mock, cfg.template)
    IN  /\ pc[w] = "minute"
        /\ cur' = [cur EXCEPT ![w].g = g]
        /\ passes' = Passed(passes, g, now)
        /\ pc' = [pc EXCEPT ![w] = "deliver"]
        /\ UNCHANGED << now, ticks, cfg, isStopped, isPaused, queue, otherQueue, location,
                        customersMessaged, minuteCounter, admitted, redelivered,
                        doneSend, sentTo, gateVars, sendVars >>

\* a wrong variant of AfterBranch: QUIET_ABORT also runs the increment
AfterBranch_abortIncrements(t) ==
    CASE t \in {"SEND", "MOCK_SEND", "QUIET_ABORT"} -> "increment"
      [] t \in {"QUIET_REQUEUE", "LIMIT_REQUEUE"}   -> "unlock"
      [] OTHER                                      -> "done"

\* a wrong variant of AfterBranch: LIMIT_HOLD does not return
AfterBranch_holdFallsThrough(t) ==
    CASE t \in {"SEND", "MOCK_SEND"}        -> "increment"
      [] t \in {"QUIET_ABORT", "LIMIT_HOLD"} -> "next"
      [] OTHER                               -> "unlock"

\* a wrong variant of AfterBranch: a requeue returns with the lock held
AfterBranch_requeueReturns(t) ==
    CASE t \in {"SEND", "MOCK_SEND"} -> "increment"
      [] t = "QUIET_ABORT"            -> "next"
      [] OTHER                        -> "done"

\* a wrong variant of AfterBranch: QUIET_ABORT returns like a hold
AfterBranch_abortReturns(t) ==
    CASE t \in {"SEND", "MOCK_SEND"}               -> "increment"
      [] t \in {"QUIET_REQUEUE", "LIMIT_REQUEUE"}   -> "unlock"
      [] OTHER                                      -> "done"

\* a wrong variant of AfterBranch: a mocked send skips the increment
AfterBranch_mockSkipsIncrement(t) ==
    CASE t = "SEND"                                 -> "increment"
      [] t \in {"MOCK_SEND", "QUIET_ABORT"}         -> "next"
      [] t \in {"QUIET_REQUEUE", "LIMIT_REQUEUE"}   -> "unlock"
      [] OTHER                                      -> "done"

\* where the handler goes after the branch of the outcome: the SEND and
\* MOCK_SEND branches end with the increment, QUIET_ABORT falls through to the
\* next step, the requeues go on to their unlock, the hold returns
AfterBranch(t) ==
    CASE t \in {"SEND", "MOCK_SEND"}               -> "increment"
      [] t = "QUIET_ABORT"                          -> "next"
      [] t \in {"QUIET_REQUEUE", "LIMIT_REQUEUE"}   -> "unlock"
      [] OTHER                                      -> "done"

\* the free e-mail quota in the job's copy of the workspace is used up: the
\* SEND branch of an e-mail template throws before anything is sent
QuotaExhausted(c) == cfg.template.type = "email" /\ c.quota = 0

\* the job's workspace is on the free e-mail plan and the template is an e-mail
OnFreePlan(c) == cfg.template.type = "email" /\ c.quota # NoQuota

\* delivered after the first k of chs were handed over for this job
HandedOver(d, job, chs, k) ==
    [key \in DOMAIN d |->
        IF key[1] = job.id /\ key[2] = job.step /\ (\E i \in 1..k : chs[i] = key[3])
        THEN d[key] + 1 ELSE d[key]]

\* the status rows a send inserts: one per sender.process
StatusRows(chs) == Cardinality({i \in 1..Len(chs) : chs[i] # "webhook"})

\* the branch of the outcome: send, record, hold or requeue
Deliver(w) ==
    LET c == cur[w]
        t == c.g.type
        sends == t \in {"SEND", "MOCK_SEND"}
        requeues == t \in {"QUIET_REQUEUE", "LIMIT_REQUEUE"}
        chs == IF t = "SEND" THEN Channels(cfg.template, cfg.selectedPlatform) ELSE << >>
        free == t = "SEND" /\ OnFreePlan(c)
    IN  /\ pc[w] = "deliver"
        /\ ~(t = "SEND" /\ QuotaExhausted(c))
        /\ cur' = [cur EXCEPT
                     ![w].messageSent = IF sends THEN TRUE ELSE @,
                     ![w].quota = IF free THEN @ - 1 ELSE @,
                     ![w].did = [@ EXCEPT
                        !.send = @ + Len(chs),
                        !.mock = IF t = "MOCK_SEND" THEN @ + 1 ELSE @,
                        !.ping = IF t = "MOCK_SEND" /\ cfg.ping \in {"ok", "refused"}
                                 THEN @ + 1 ELSE @,
                        !.status = IF t \in {"MOCK_SEND", "QUIET_ABORT"} THEN @ + 1
                                   ELSE @ + StatusRows(chs),
                        !.requeue = IF requeues THEN @ + 1 ELSE @,
                        !.unlock = IF t = "LIMIT_HOLD" THEN @ + 1 ELSE @]]
        /\ queue' = IF requeues
                    THEN queue \cup {[c.job EXCEPT !.runAt = c.g.requeueTime]}
                    ELSE queue
        /\ location' = IF t = "LIMIT_HOLD"
                       THEN unlock(location, c.job.customer, c.job.step)
                       ELSE location
        /\ sentTo' = IF sends THEN sentTo \cup {c.job.customer} ELSE sentTo
        /\ delivered' = HandedOver(delivered, c.job, chs, Len(chs))
        /\ freeEmailsCount' = IF free THEN c.quota - 1 ELSE freeEmailsCount
        /\ pc' = [pc EXCEPT ![w] = AfterBranch(t)]
        /\ UNCHANGED << now, ticks, cfg, isStopped, isPaused, otherQueue, customersMessaged,
                        minuteCounter, admitted, redelivered, doneSend, passes, gateVars >>

\* a wrong variant of UnlockAfterRequeue: the location is put at the
\* destination step
UnlockAfterRequeue_atDestination(w) ==
    /\ pc[w] = "unlock"
    /\ location' = unlock(location, cur[w].job.customer, DestinationOf(cur[w].job.step))
    /\ cur' = [cur EXCEPT ![w].did.unlock = @ + 1]
    /\ pc' = [pc EXCEPT ![w] = "done"]
    /\ UNCHANGED << now, ticks, cfg, isStopped, isPaused, queue, otherQueue,
                    customersMessaged, minuteCounter, admitted, redelivered, doneSend,
                    historyVars, gateVars, sendVars >>

\* after requeueMessage: await journeyLocationsService.unlock, then return
UnlockAfterRequeue(w) ==
    /\ pc[w] = "unlock"
    /\ location' = unlock(location, cur[w].job.customer, cur[w].job.step)
    /\ cur' = [cur EXCEPT ![w].did.unlock = @ + 1]
    /\ pc' = [pc EXCEPT ![w] = "done"]
    /\ UNCHANGED << now, ticks, cfg, isStopped, isPaused, queue, otherQueue, customersMessaged,
                    minuteCounter, admitted, redelivered, doneSend, historyVars, gateVars, sendVars >>

\* the SEND branch throws (the quota HttpException, the sender, a lookup):
\* the job fails
SendThrows(w) ==
    /\ pc[w] = "deliver"
    /\ cur[w].g.type = "SEND"
    /\ pc' = [pc EXCEPT ![w] = "failed"]
    /\ UNCHANGED << now, ticks, cfg, isStopped, isPaused, queue, otherQueue, location,
                    customersMessaged, minuteCounter, cur, admitted, redelivered,
                    doneSend, historyVars, gateVars, sendVars >>

\* await rateLimitByMinuteIncrement
Increment(w) ==
    /\ pc[w] = "increment"
    /\ minuteCounter' = rateLimitByMinuteIncrement(minuteCounter, now)
    /\ cur' = [cur EXCEPT ![w].did.increment = @ + 1]
    /\ pc' = [pc EXCEPT ![w] = "next"]
    /\ UNCHANGED << now, ticks, cfg, isStopped, isPaused, queue, otherQueue, location,
                    customersMessaged, admitted, redelivered, doneSend, historyVars,
                    gateVars, sendVars >>

\* a wrong variant of ReleaseStep: a timer-class destination unlocks at the
\* job's step
ReleaseStep_atCurrent(step, nextStep, nextType) ==
    IF nextStep = NoStep THEN step
    ELSE IF nextType \in TimerTypes THEN step
    ELSE NoStep

\* a wrong variant of ReleaseStep: a missing destination keeps the lock
ReleaseStep_keepsOnMissing(step, nextStep, nextType) ==
    IF nextStep = NoStep THEN NoStep
    ELSE IF nextType \in TimerTypes THEN nextStep
    ELSE NoStep

\* a wrong variant of ReleaseStep: the lock is released for every destination
ReleaseStep_always(step, nextStep, nextType) ==
    IF nextStep = NoStep THEN step ELSE nextStep

\* the step the location is unlocked at after the next-step lookup, NoStep
\* when the lock is kept for the next step's job: a missing destination
\* unlocks at the job's step, a timer-class destination at the destination
ReleaseStep(step, nextStep, nextType) ==
    IF nextStep = NoStep THEN step
    ELSE IF nextType \in TimerTypes THEN nextStep
    ELSE NoStep

\* a wrong variant of nextJob: the triggering event is left out
nextJob_dropsEvent(c, nextStep, nextType) ==
    [id |-> c.job.id, customer |-> c.job.customer, step |-> nextStep,
     messageSent |-> c.messageSent, runAt |-> 0,
     event |-> Undefined, branch |-> Undefined, on |-> processorMap(nextType),
     quota |-> c.quota]

\* nextJob: owner (with its workspace as the handler left it), journey and
\* session (id), customer, location and event of the processed job, step:
\* nextStep; branch is not among its fields
nextJob(c, nextStep, nextType) ==
    [id |-> c.job.id, customer |-> c.job.customer, step |-> nextStep,
     messageSent |-> c.messageSent, runAt |-> 0,
     event |-> c.job.event, branch |-> Undefined, on |-> processorMap(nextType),
     quota |-> c.quota]

\* the next step: unlock, or hand the customer to the destination's queue;
\* processorMap of an unimplemented type throws
ResolveNext(w) ==
    LET c == cur[w]
        nextStep == DestinationOf(c.job.step)
        nextType == StepTypeOf(nextStep)
        release  == ReleaseStep(c.job.step, nextStep, nextType)
        chained  == nextStep # NoStep /\ nextType \notin TimerTypes
        throws   == chained /\ nextType \in UnimplementedTypes
        next     == nextJob(c, nextStep, nextType)
    IN  /\ pc[w] = "next"
        /\ location' = IF release # NoStep
                       THEN unlock(location, c.job.customer, release)
                       ELSE location
        /\ queue' = IF chained /\ next.on = MessageQueue
                    THEN queue \cup {next} ELSE queue
        /\ otherQueue' = IF chained /\ ~throws /\ next.on # MessageQueue
                         THEN otherQueue \cup {next} ELSE otherQueue
        /\ cur' = [cur EXCEPT
                     ![w].did.unlock = IF release # NoStep THEN @ + 1 ELSE @,
                     ![w].did.enqueue = IF chained /\ ~throws THEN @ + 1 ELSE @]
        /\ doneSend' = IF c.messageSent /\ ~throws
                       THEN doneSend \cup {<< c.job.id, c.job.step >>} ELSE doneSend
        /\ pc' = [pc EXCEPT ![w] = IF throws THEN "failed" ELSE "done"]
        /\ UNCHANGED << now, ticks, cfg, isStopped, isPaused, customersMessaged, minuteCounter,
                        admitted, redelivered, historyVars, gateVars, sendVars >>

\* process() returned: the job is completed and removed
Complete(w) ==
    /\ pc[w] = "done"
    /\ pc' = [pc EXCEPT ![w] = "idle"]
    /\ cur' = [cur EXCEPT ![w] = NoCur]
    /\ UNCHANGED << now, ticks, cfg, isStopped, isPaused, queue, otherQueue, location,
                    customersMessaged, minuteCounter, admitted, redelivered, doneSend,
                    historyVars, gateVars, sendVars >>

\* @OnWorkerEvent('failed'): the error is reported, nothing else
onFailed(w) ==
    /\ pc[w] = "failed"
    /\ pc' = [pc EXCEPT ![w] = "idle"]
    /\ cur' = [cur EXCEPT ![w] = NoCur]
    /\ UNCHANGED << now, ticks, cfg, isStopped, isPaused, queue, otherQueue, location,
                    customersMessaged, minuteCounter, admitted, redelivered, doneSend,
                    historyVars, gateVars, sendVars >>

Next ==
    \/ \E c \in Customers : Admit(c)
    \/ Tick
    \/ StopJourney
    \/ \E w \in Workers : Redeliver(w)
    \/ \E j \in otherQueue : Downstream(j)
    \/ \E w \in Workers : \E j \in queue : Dequeue(w, j)
    \/ \E w \in Workers : MinuteCheck(w)
    \/ \E w \in Workers : Deliver(w)
    \/ \E w \in Workers : UnlockAfterRequeue(w)
    \/ \E w \in Workers : SendThrows(w)
    \/ \E w \in Workers : Increment(w)
    \/ \E w \in Workers : ResolveNext(w)
    \/ \E w \in Workers : Complete(w)
    \/ \E w \in Workers : onFailed(w)

Spec == Init /\ [][Next]_vars

\* the handler steps, which a worker takes whenever it can
Handler(w) ==
    \/ \E j \in queue : Dequeue(w, j)
    \/ MinuteCheck(w)
    \/ Deliver(w)
    \/ UnlockAfterRequeue(w)
    \/ Increment(w)
    \/ ResolveNext(w)
    \/ Complete(w)
    \/ onFailed(w)

\* one journey, with the per-minute limit; workers and the other processors
\* keep running
FairInit ==
    /\ Init
    /\ cfg = Config(Settings(QuietOff, Limit(FALSE, 1), Limit(TRUE, 1)), 0, FALSE, "EXIT")

FairSpec ==
    /\ FairInit
    /\ [][Next]_vars
    /\ \A w \in Workers : WF_vars(Handler(w))
    /\ WF_vars(\E j \in otherQueue : Downstream(j))

(***************************************************************************)
(* The journey Start -> Message -> TimeDelay -> Exit, end to end.  The     *)
(* time-delay and exit processors are other processors of the engine; each *)
(* job is delivered once here.                                             *)
(***************************************************************************)
\* the delay configured on the TimeDelay step
DelayMs == 5 * MsPerMin

\* a customer who is not in the journey yet enters at Start and is advanced to
\* the message step
Enter(c) ==
    /\ location[c].step = NoStep
    /\ Admit(c)

\* a customer came to rest, unlocked, at a timer step: the step's processor
\* computes the wake instant and enqueues a delayed job for the same step
TimeDelayStart(c) ==
    /\ ~location[c].locked
    /\ location[c].step # NoStep
    /\ StepTypeOf(location[c].step) \in TimerTypes
    /\ \A j \in otherQueue : j.customer # c
    /\ otherQueue' = otherQueue \cup
                        {[id |-> 0, customer |-> c, step |-> location[c].step,
                          messageSent |-> FALSE, runAt |-> now + DelayMs,
                          event |-> Undefined, branch |-> Undefined,
                          on |-> processorMap(StepTypeOf(location[c].step)),
                          quota |-> freeEmailsCount]}
    /\ UNCHANGED << now, ticks, cfg, isStopped, isPaused, queue, location, customersMessaged,
                    minuteCounter, pc, cur, admitted, redelivered, doneSend,
                    historyVars, gateVars, sendVars >>

\* the delayed job fires at its wake instant: the customer is locked and
\* handed to the processor of the timer step's destination
TimeDelayFire(j) ==
    /\ j \in otherQueue
    /\ StepTypeOf(j.step) \in TimerTypes
    /\ now' = IF now < j.runAt THEN j.runAt ELSE now
    /\ location' = [location EXCEPT ![j.customer].locked = TRUE]
    /\ otherQueue' = (otherQueue \ {j}) \cup
                        {[j EXCEPT !.step = DestinationOf(j.step), !.runAt = 0,
                                   !.on = processorMap(StepTypeOf(DestinationOf(j.step)))]}
    /\ UNCHANGED << ticks, cfg, isStopped, isPaused, queue, customersMessaged, minuteCounter,
                    pc, cur, admitted, redelivered, doneSend, historyVars, gateVars, sendVars >>

DelayInit ==
    /\ Init
    /\ cfg = DelayConfig

DelayNext ==
    \/ \E c \in Customers : Enter(c)
    \/ StopJourney
    \/ \E j \in otherQueue : Downstream(j)
    \/ \E w \in Workers : \E j \in queue : Dequeue(w, j)
    \/ \E w \in Workers : MinuteCheck(w)
    \/ \E w \in Workers : Deliver(w)
    \/ \E w \in Workers : SendThrows(w)
    \/ \E w \in Workers : Increment(w)
    \/ \E w \in Workers : ResolveNext(w)
    \/ \E w \in Workers : Complete(w)
    \/ \E w \in Workers : onFailed(w)
    \/ \E c \in Customers : TimeDelayStart(c)
    \/ \E j \in otherQueue : TimeDelayFire(j)

\* workers, the other processors and the timers keep running
DelaySpec ==
    /\ DelayInit
    /\ [][DelayNext]_vars
    /\ \A w \in Workers : WF_vars(Handler(w))
    /\ WF_vars(\E j \in otherQueue : Downstream(j))
    /\ \A c \in Customers : WF_vars(TimeDelayStart(c))
    /\ WF_vars(\E j \in otherQueue : TimeDelayFire(j))

(***************************************************************************)
(* The diagnostic ping of a mocked send                                    *)
(***************************************************************************)
\* http.get returned a ClientRequest at once and the handler went on; the
\* connection fails later and the request emits 'error', which has no
\* listener: the exception is uncaught and the process exits with the
\* handlers it was running
PingError(w) ==
    /\ pc[w] \in {"increment", "next", "done"}
    /\ cur[w].did.ping = 1
    /\ cfg.ping = "refused"
    /\ pc' = [v \in Workers |-> IF pc[v] = "idle" THEN "idle" ELSE "crashed"]
    /\ UNCHANGED << now, ticks, cfg, isStopped, isPaused, queue, otherQueue, location,
                    customersMessaged, minuteCounter, cur, admitted, redelivered,
                    doneSend, historyVars, gateVars, sendVars >>

\* the process is started again; a job it was running is handed out again
\* only as a stalled job
Restart(w) ==
    /\ pc[w] = "crashed"
    /\ pc' = [pc EXCEPT ![w] = "idle"]
    /\ cur' = [cur EXCEPT ![w] = NoCur]
    /\ UNCHANGED << now, ticks, cfg, isStopped, isPaused, queue, otherQueue, location,
                    customersMessaged, minuteCounter, admitted, redelivered, doneSend,
                    historyVars, gateVars, sendVars >>

\* mock mode with each kind of diagnostic URL, the template without and with
\* webhookData
MockConfigs ==
    { Pinging(Config(Settings(QuietOff, Limit(FALSE, 1), Limit(TRUE, 1)), 0, TRUE, "EXIT"),
              url) : url \in PingUrls }
    \cup { WithWebhook(Config(NoLimits, 0, TRUE, "EXIT")) }

MockInit == Start(MockConfigs)

MockNext ==
    \/ Next
    \/ \E w \in Workers : PingError(w)
    \/ \E w \in Workers : Restart(w)

MockSpec == MockInit /\ [][MockNext]_vars

(***************************************************************************)
(* A send that fails partway, and the retry                                *)
(***************************************************************************)
\* the SEND branch throws after the first k hand-overs (the second
\* sender.process of push 'All', an insert of a status row, a save): the job
\* fails with these messages out
SendFailsPartway(w) ==
    LET c == cur[w]
        chs == Channels(cfg.template, cfg.selectedPlatform)
    IN  /\ pc[w] = "deliver"
        /\ c.g.type = "SEND"
        /\ ~QuotaExhausted(c)
        /\ \E k \in 1..Len(chs) :
              /\ delivered' = HandedOver(delivered, c.job, chs, k)
              /\ cur' = [cur EXCEPT ![w].did.send = @ + k]
        /\ pc' = [pc EXCEPT ![w] = "failed"]
        /\ UNCHANGED << now, ticks, cfg, isStopped, isPaused, queue, otherQueue, location,
                        customersMessaged, minuteCounter, admitted, redelivered,
                        doneSend, historyVars, gateVars, freeEmailsCount >>

\* the failed job has attempts left: the queue hands it out again with the
\* data it was enqueued with
Retry(w) ==
    /\ pc[w] = "failed"
    /\ admitted + redelivered < MaxJobs
    /\ redelivered' = redelivered + 1
    /\ queue' = queue \cup {cur[w].job}
    /\ pc' = [pc EXCEPT ![w] = "idle"]
    /\ cur' = [cur EXCEPT ![w] = NoCur]
    /\ UNCHANGED << now, ticks, cfg, isStopped, isPaused, otherQueue, location,
                    customersMessaged, minuteCounter, admitted, doneSend, historyVars,
                    gateVars, sendVars >>

PerMinute == Settings(QuietOff, Limit(FALSE, 1), Limit(TRUE, 1))

\* journeys by template: an e-mail on the free plan with one e-mail left, a
\* push to both platforms, a webhook without and (in mock mode) with
\* webhookData, a type without a case, an sms with webhookData in mock mode
SendConfigs ==
    { Free3(Config(NoLimits, 0, FALSE, "EXIT"), 1),
      WithTemplate(Config(NoLimits, 0, FALSE, "EXIT"), "push", "All"),
      WithTemplate(Config(NoLimits, 0, FALSE, "EXIT"), "webhook", "All"),
      WithWebhook(WithTemplate(Config(NoLimits, 0, TRUE, "EXIT"), "webhook", "All")),
      WithTemplate(Config(PerMinute, 0, FALSE, "EXIT"), "firebase", "All"),
      WithWebhook(WithTemplate(Config(PerMinute, 0, TRUE, "EXIT"), "sms", "All")) }

SendInit == Start(SendConfigs)

SendNext ==
    \/ \E c \in Customers : Admit(c)
    \/ Tick
    \/ StopJourney
    \/ \E j \in otherQueue : Downstream(j)
    \/ \E w \in Workers : \E j \in queue : Dequeue(w, j)
    \/ \E w \in Workers : MinuteCheck(w)
    \/ \E w \in Workers : Deliver(w)
    \/ \E w \in Workers : UnlockAfterRequeue(w)
    \/ \E w \in Workers : SendThrows(w)
    \/ \E w \in Workers : SendFailsPartway(w)
    \/ \E w \in Workers : Increment(w)
    \/ \E w \in Workers : ResolveNext(w)
    \/ \E w \in Workers : Complete(w)
    \/ \E w \in Workers : onFailed(w)
    \/ \E w \in Workers : Retry(w)

SendSpec == SendInit /\ [][SendNext]_vars

(***************************************************************************)
(* Pausing                                                                 *)
(***************************************************************************)
\* the journey is paused: the flag in the journey store is set, the queues,
\* the locations and the running handlers are left alone
PauseJourney ==
    /\ ~isPaused
    /\ ~isStopped
    /\ isPaused' = TRUE
    /\ UNCHANGED << now, ticks, cfg, isStopped, workerVars, historyVars, gateVars, sendVars >>

\* a journey with the per-minute limit
PauseConfigs ==
    { Config(Settings(QuietOff, Limit(FALSE, 1), Limit(TRUE, 1)), 0, FALSE, "EXIT") }

PauseInit == Start(PauseConfigs)

PauseNext ==
    \/ Next
    \/ PauseJourney

PauseSpec == PauseInit /\ [][PauseNext]_vars

(***************************************************************************)
(* The hand-over to the next step                                          *)
(***************************************************************************)
\* journeys whose message step leads to a step of each type that has a queue
\* and is not a timer, sending for real, mocked, aborted and rate-limited
DispatchConfigs ==
    { Config(NoLimits, 0, TRUE, "START"),
      Config(NoLimits, 0, FALSE, "EXPERIMENT"),
      Config(NoLimits, 0, FALSE, "LOOP"),
      Config(NoLimits, 0, FALSE, "EXIT"),
      Config(NoLimits, 0, FALSE, "MESSAGE"),
      Config(Settings(QuietOff, Limit(FALSE, 1), Limit(TRUE, 1)), 0, FALSE, "MULTISPLIT"),
      Config(Settings(QuietNight("Abort"), Limit(FALSE, 1), Limit(FALSE, 1)),
             0, FALSE, "LOOP") }

DispatchInit == Start(DispatchConfigs)

DispatchSpec == DispatchInit /\ [][Next]_vars

(***************************************************************************)
(* Claims about the workers                                                *)
(***************************************************************************)
\* a worker is inside process() for its job
InProgress(w) == pc[w] \notin {"idle", "done", "failed"}

Sent(w) == cur[w].did.send + cur[w].did.mock

\* C1: at most one advancement of a customer is in progress at a time, and
\* two workers that got jobs for the same customer and step never both send.
C1_OneAdvancementAtATime ==
    \A w1, w2 \in Workers :
        (w1 # w2 /\ pc[w1] # "idle" /\ pc[w2] # "idle"
           /\ cur[w1].job.customer = cur[w2].job.customer) =>
            /\ ~(InProgress(w1) /\ InProgress(w2))
            /\ ~(cur[w1].job.step = cur[w2].job.step /\ Sent(w1) > 0 /\ Sent(w2) > 0)

\* C2: with the per-minute limit enabled with cap N, at most N jobs reach
\* SEND or MOCK_SEND within one minute, for any interleaving of the workers.
C2_PerMinuteCap ==
    cfg.js.maxMessageSends.enabled => passes.count <= cfg.js.maxMessageSends.max

\* C3: with the distinct-customers limit enabled with cap M, at most M
\* distinct customers reach SEND or MOCK_SEND in the journey.
C3_DistinctCustomersCap ==
    cfg.js.maxEntries.enabled => Cardinality(sentTo) <= cfg.js.maxEntries.max

\* C5: a delivery of a job whose advancement already completed with a send
\* sends nothing, increments nothing, enqueues no next step and leaves the
\* location unlocked.
C5_RedeliveryIsNoOp ==
    \A w \in Workers :
        (pc[w] # "idle" /\ cur[w].redo) =>
            /\ Sent(w) = 0
            /\ cur[w].did.increment = 0
            /\ cur[w].did.enqueue = 0
            /\ pc[w] \in {"done", "failed"} => ~location[cur[w].job.customer].locked

\* C6: on every exit path of a job, normal or by a fault, the lock is
\* released exactly once or handed to exactly one follow-up job.
C6_LockReleasedOrHandedOnce ==
    \A w \in Workers :
        /\ cur[w].did.unlock + cur[w].did.enqueue <= 1
        /\ pc[w] \in {"done", "failed"} => cur[w].did.unlock + cur[w].did.enqueue = 1

\* C7: every location lock that is held is eventually released, also when
\* the job fails with an exception.
C7_LockEventuallyReleased ==
    \A c \in Customers : location[c].locked ~> ~location[c].locked

\* C8: a job that starts after the journey was stopped has no effect: no
\* send, no status record, no increment, no requeue, no next-step job.
C8_StoppedJourneyNoEffects ==
    \A w \in Workers :
        (pc[w] # "idle" /\ cur[w].stopped) =>
            /\ Sent(w) = 0
            /\ cur[w].did.status = 0
            /\ cur[w].did.increment = 0
            /\ cur[w].did.requeue = 0
            /\ cur[w].did.enqueue = 0

\* the gate of the worker's job is decided
PastGate(w) == pc[w] \in {"deliver", "unlock", "increment", "next", "done", "failed"}

\* the first instant of the calendar minute after the one of t
NextMinuteBoundary(t) == (t - (t % MsPerMin)) + MsPerMin

\* C11: with per-minute cap 1 and the jobs of two customers processed by two
\* workers in the same minute, exactly one job resolves SEND and the other
\* resolves LIMIT_REQUEUE with a requeueTime no later than the next minute
\* boundary.
C11_TwoCustomersCapOne ==
    (cfg.js.maxMessageSends.enabled /\ cfg.js.maxMessageSends.max = 1
       /\ ~cfg.mock /\ ticks = 0) =>
        \A w1, w2 \in Workers :
            (w1 # w2 /\ PastGate(w1) /\ PastGate(w2)
               /\ cur[w1].job.customer # cur[w2].job.customer) =>
                \E a, b \in {w1, w2} :
                    /\ a # b
                    /\ cur[a].g.type = "SEND"
                    /\ cur[b].g.type = "LIMIT_REQUEUE"
                    /\ cur[b].g.requeueTime <= NextMinuteBoundary(now)

\* C13: a job whose outcome is SEND and whose send completed has incremented
\* the per-minute counter exactly once, and the journey's count of distinct
\* customers messaged has grown by the newly messaged customer.
C13_SendIncrementsBothCounters ==
    \A w \in Workers :
        (pc[w] \in {"next", "done"} /\ cur[w].did.send = 1) =>
            /\ cur[w].did.increment = 1
            /\ customersMessaged > cfg.messaged

\* C14: after a SEND or MOCK_SEND branch the customer's location in the
\* location store has messageSent = TRUE, and no other outcome sets it.
C14_MessageSentInStore ==
    /\ \A w \in Workers :
           (pc[w] \in {"increment", "next", "done"} /\ Sent(w) = 1) =>
               location[cur[w].job.customer].messageSent
    /\ \A c \in Customers :
           (location[c].messageSent /\ ~InitiallyMessaged(c)) => c \in sentTo

\* C15: the counters change only in the increment that follows a send: a job
\* whose outcome is QUIET_REQUEUE, QUIET_ABORT, LIMIT_REQUEUE or LIMIT_HOLD,
\* or whose send throws, increments nothing.
C15_IncrementOnlyAfterSend ==
    [][ /\ (minuteCounter' # minuteCounter \/ customersMessaged' # customersMessaged) =>
              \E w \in Workers :
                  /\ pc[w] = "increment"
                  /\ Sent(w) = 1
                  /\ cur[w].g.type \in {"SEND", "MOCK_SEND"}
                  /\ cur'[w].did.increment = 1
        /\ \A w \in Workers :
              (PastGate(w)' /\ Sent(w)' = 0) => cur'[w].did.increment = 0
      ]_vars

C15_Witness ==
    \E w \in Workers :
        /\ pc[w] = "done"
        /\ cur[w].g.type = "LIMIT_REQUEUE"
        /\ cur[w].did.increment = 0
        /\ cur[w].did.requeue = 1
        /\ minuteCounter.count = 1

\* C16: a job whose send is refused because the free e-mail quota is used up
\* increments nothing and still goes through the next-step resolution: its
\* lock is released or handed to the next step's job.
C16_QuotaFaultContinues ==
    \A w \in Workers :
        (QuotaExhausted(cur[w]) /\ pc[w] = "failed" /\ cur[w].g.type = "SEND") =>
            /\ cur[w].did.increment = 0
            /\ cur[w].did.unlock + cur[w].did.enqueue = 1

\* C17: a job whose next step has an unimplemented type fails with no job
\* enqueued and with its location lock released.
C17_UnimplementedReleasesLock ==
    \A w \in Workers :
        (pc[w] = "failed" /\ cur[w].did.status = 1
           /\ StepTypeOf(DestinationOf(cur[w].job.step)) \in
                 {"AB_TEST", "RANDOM_COHORT_BRANCH", "TRACKER", "ATTRIBUTE_BRANCH"}) =>
            /\ cur[w].did.enqueue = 0
            /\ cur[w].did.unlock = 1

(***************************************************************************)
(* The next step                                                           *)
(***************************************************************************)
\* worker w takes the next-step resolution in this step, for a job whose
\* outcome is SEND, MOCK_SEND or QUIET_ABORT
ResolvesNext(w) ==
    /\ pc[w] = "next"
    /\ pc'[w] # "next"
    /\ cur[w].g.type \in {"SEND", "MOCK_SEND", "QUIET_ABORT"}

\* the location of customer c, unlocked at step s
UnlockedAt(c, s) == [location[c] EXCEPT !.locked = FALSE, !.step = s]

\* the step releases the lock of w's customer at step s and enqueues nothing
ReleasesOnly(w, s) ==
    /\ pc'[w] = "done"
    /\ location' = [location EXCEPT ![cur[w].job.customer] =
                                       UnlockedAt(cur[w].job.customer, s)]
    /\ queue' = queue
    /\ otherQueue' = otherQueue
    /\ cur'[w].did.unlock = 1
    /\ cur'[w].did.enqueue = 0

\* the step enqueues one job for step s and w's customer and keeps the lock
EnqueuesOnly(w, s) ==
    /\ pc'[w] = "done"
    /\ location' = location
    /\ cur'[w].did.enqueue = 1
    /\ cur'[w].did.unlock = 0
    /\ \E j \in queue' \cup otherQueue' :
           /\ j.customer = cur[w].job.customer
           /\ j.step = s
    /\ (queue' \cup otherQueue') \ (queue \cup otherQueue) \subseteq
           { j \in queue' \cup otherQueue' :
                 j.customer = cur[w].job.customer /\ j.step = s }

\* C18 as stated: a timer-class destination releases the lock and enqueues
\* nothing; every other resolved destination gets exactly one job and the lock
\* is kept.
C18_Original ==
    [][ \A w \in Workers :
          LET nextStep == DestinationOf(cur[w].job.step)
          IN  (ResolvesNext(w) /\ nextStep # NoStep) =>
                  IF StepTypeOf(nextStep) \in {"TIME_DELAY", "TIME_WINDOW", "WAIT_UNTIL_BRANCH"}
                  THEN ReleasesOnly(w, nextStep)
                  ELSE EnqueuesOnly(w, nextStep)
      ]_vars

\* C18 (amended): a timer-class destination releases the lock at the
\* destination and enqueues nothing; a destination of an unimplemented type
\* makes the job fail with nothing enqueued; every other resolved destination
\* gets exactly one job and the lock is kept.
C18_TimerReleasesElseEnqueues ==
    [][ \A w \in Workers :
          LET nextStep == DestinationOf(cur[w].job.step)
              nextType == StepTypeOf(nextStep)
          IN  (ResolvesNext(w) /\ nextStep # NoStep) =>
                  IF nextType \in {"TIME_DELAY", "TIME_WINDOW", "WAIT_UNTIL_BRANCH"}
                  THEN ReleasesOnly(w, nextStep)
                  ELSE IF nextType \in {"AB_TEST", "RANDOM_COHORT_BRANCH", "TRACKER",
                                        "ATTRIBUTE_BRANCH"}
                  THEN /\ pc'[w] = "failed"
                       /\ queue' = queue
                       /\ otherQueue' = otherQueue
                       /\ cur'[w].did.enqueue = 0
                  ELSE EnqueuesOnly(w, nextStep)
      ]_vars

C18_Witness ==
    \E w \in Workers :
        /\ pc[w] = "done"
        /\ cur[w].g.type = "SEND"
        /\ StepTypeOf(DestinationOf(cur[w].job.step)) = "TIME_DELAY"
        /\ cur[w].did.unlock = 1
        /\ cur[w].did.enqueue = 0
        /\ location[cur[w].job.customer].step = DestinationStep

\* C19: when the destination of the job's step cannot be resolved, the
\* handler enqueues no job and releases the lock with the customer left at the
\* job's step.
C19_MissingDestinationUnlocks ==
    [][ \A w \in Workers :
          (ResolvesNext(w) /\ DestinationOf(cur[w].job.step) = NoStep) =>
              ReleasesOnly(w, cur[w].job.step)
      ]_vars

C19_Witness ==
    \E w \in Workers :
        /\ pc[w] = "done"
        /\ cur[w].g.type = "QUIET_ABORT"
        /\ DestinationOf(cur[w].job.step) = NoStep
        /\ cur[w].did.unlock = 1
        /\ cur[w].did.enqueue = 0
        /\ ~location[cur[w].job.customer].locked
        /\ location[cur[w].job.customer].step = MessageStep

\* C20: on LIMIT_HOLD the handler releases the lock at the job's step and
\* returns: nothing is sent, recorded, incremented, requeued or enqueued.
C20_LimitHoldOnlyUnlocks ==
    [][ \A w \in Workers :
          (pc[w] = "deliver" /\ pc'[w] # "deliver" /\ cur[w].g.type = "LIMIT_HOLD") =>
              /\ pc'[w] = "done"
              /\ cur'[w].did = [NoEffects EXCEPT !.unlock = 1]
              /\ location' = [location EXCEPT ![cur[w].job.customer] =
                                 UnlockedAt(cur[w].job.customer, cur[w].job.step)]
              /\ queue' = queue
              /\ otherQueue' = otherQueue
              /\ minuteCounter' = minuteCounter
              /\ customersMessaged' = customersMessaged
              /\ sentTo' = sentTo
      ]_vars

C20_Witness ==
    \E w \in Workers :
        /\ pc[w] = "done"
        /\ cur[w].g.type = "LIMIT_HOLD"
        /\ cur[w].did = [NoEffects EXCEPT !.unlock = 1]
        /\ ~location[cur[w].job.customer].locked
        /\ location[cur[w].job.customer].step = MessageStep

(***************************************************************************)
(* The branches that do not send                                           *)
(***************************************************************************)
\* the step leaves both counters and the record of sends as they are
NothingCounted ==
    /\ minuteCounter' = minuteCounter
    /\ customersMessaged' = customersMessaged
    /\ sentTo' = sentTo

\* C24: with the customers-messaged cap reached, the job of a customer already
\* messaged in this journey is not resolved to LIMIT_HOLD.
C24_MessagedCustomerNotHeld ==
    \A w \in Workers :
        (pc[w] # "idle" /\ cur[w].job.messageSent /\ cfg.js.maxEntries.enabled)
            => cur[w].g.type # "LIMIT_HOLD"

\* C21: on QUIET_REQUEUE or LIMIT_REQUEUE the handler first adds one delayed
\* job for the same step and customer at requeueTime, with the lock still
\* held, then releases the lock at the job's step and returns; it sends,
\* records, increments and enqueues nothing else.
C21_RequeueThenUnlock ==
    [][ \A w \in Workers :
          /\ (pc[w] = "deliver" /\ pc'[w] # "deliver"
                /\ cur[w].g.type \in {"QUIET_REQUEUE", "LIMIT_REQUEUE"}) =>
                 /\ pc'[w] = "unlock"
                 /\ queue' = queue \cup
                                {[cur[w].job EXCEPT !.runAt = cur[w].g.requeueTime]}
                 /\ otherQueue' = otherQueue
                 /\ location' = location
                 /\ cur'[w].did = [NoEffects EXCEPT !.requeue = 1]
                 /\ NothingCounted
          /\ (pc[w] = "unlock" /\ pc'[w] # "unlock") =>
                 /\ pc'[w] = "done"
                 /\ cur[w].g.type \in {"QUIET_REQUEUE", "LIMIT_REQUEUE"}
                 /\ location' = [location EXCEPT ![cur[w].job.customer] =
                                    UnlockedAt(cur[w].job.customer, cur[w].job.step)]
                 /\ queue' = queue
                 /\ otherQueue' = otherQueue
                 /\ cur'[w].did = [NoEffects EXCEPT !.requeue = 1, !.unlock = 1]
                 /\ NothingCounted
      ]_vars

C21_Witness ==
    \E w \in Workers :
        /\ pc[w] = "done"
        /\ cur[w].g.type = "QUIET_REQUEUE"
        /\ cur[w].did = [NoEffects EXCEPT !.requeue = 1, !.unlock = 1]
        /\ \E j \in queue :
               /\ j.customer = cur[w].job.customer
               /\ j.step = cur[w].job.step
               /\ j.runAt = cur[w].g.requeueTime
               /\ j.runAt > now
        /\ ~location[cur[w].job.customer].locked

C23_MockSendCompletes ==
    \A w \in Workers :
        (pc[w] \notin {"idle", "minute"} /\ cfg.mock /\ cfg.template.found
            /\ ~cfg.template.webhookData) =>
            /\ cur[w].g.type # "SEND"
            /\ cur[w].g.type = "MOCK_SEND" =>
                  /\ cur[w].did.send = 0
                  /\ pc[w] # "deliver" =>
                        /\ cur[w].did.mock = 1
                        /\ cur[w].did.status = 1
                        /\ cur[w].messageSent
                  /\ pc[w] = "done" => cur[w].did.enqueue = 1
                  /\ pc[w] \notin {"failed", "crashed"}

\* C37: the MOCK_SEND branch goes on to the increment, and the increment
\* raises the journey's count for the current minute by one, as after a SEND;
\* the counter changes in no other step.
C37_MockSendIncrements ==
    [][/\ \A w \in Workers :
             cur[w].g.type = "MOCK_SEND" =>
                /\ (pc[w] = "deliver" /\ pc'[w] # "deliver") => pc'[w] = "increment"
                /\ (pc[w] = "increment" /\ pc'[w] # "increment") =>
                      /\ pc'[w] = "next"
                      /\ cur'[w].did.increment = 1
                      /\ minuteCounter' =
                            [minute |-> now \div MsPerMin,
                             count |-> CountInMinute(minuteCounter, now) + 1]
                /\ (pc[w] \in {"next", "done"} /\ pc'[w] # "idle") =>
                      cur'[w].did.increment = 1
       /\ minuteCounter' # minuteCounter =>
             \E w \in Workers :
                /\ pc[w] = "increment"
                /\ pc'[w] = "next"
                /\ cur[w].g.type \in {"SEND", "MOCK_SEND"}]_vars

C37_Witness ==
    \E w, v \in Workers :
        /\ cur[w].g.type = "MOCK_SEND"
        /\ pc[w] \in {"next", "done", "failed"}
        /\ cur[w].did.increment = 1
        /\ pc[v] \in {"deliver", "unlock", "done"}
        /\ cur[v].g.type = "LIMIT_REQUEUE"
        /\ minuteCounter.count = 1

(***************************************************************************)
(* What a send hands over                                                  *)
(***************************************************************************)
\* C33: over the failed attempts and the retries of a job, no channel's
\* message is handed over more than once for the same advancement.
C33_RetryDeliversOnce ==
    \A key \in DeliveryKeys : delivered[key] <= 1

\* C34: a SEND job that has set messageSent, and one that has incremented the
\* per-minute counter, has handed at least one message to a sender or one job
\* to '{webhooks}'.
C34_CountedMeansHandedOver ==
    \A w \in Workers :
        (cur[w].g.type = "SEND" /\ pc[w] \in {"increment", "next", "done"}
            /\ (cur[w].messageSent \/ cur[w].did.increment = 1)) =>
            cur[w].did.send >= 1

\* e-mails handed over on the free plan, over all jobs
FreeEmailsSent ==
    LET keys == {key \in DeliveryKeys : key[3] = "email"}
        Sum[ks \in SUBSET keys] ==
            IF ks = {} THEN 0
            ELSE LET key == CHOOSE k \in ks : TRUE
                 IN  delivered[key] + Sum[ks \ {key}]
    IN  Sum[keys]

\* C35: on the free plan with quota Q no more than Q e-mails are sent, and
\* freeEmailsCount is never negative, in the store or in a job's copy.
C35_FreeQuotaRespected ==
    cfg.freeEmailsCount # NoQuota =>
        /\ FreeEmailsSent <= cfg.freeEmailsCount
        /\ freeEmailsCount >= 0
        /\ \A w \in Workers : pc[w] # "idle" => cur[w].quota >= 0

\* C38: in mock mode a job whose template has webhookData is never MOCK_SEND;
\* when its outcome is SEND and the template is a webhook, the send branch
\* adds one job to '{webhooks}' and calls no sender.
C38_WebhookNotMocked ==
    \A w \in Workers :
        (pc[w] \notin {"idle", "minute"} /\ cfg.mock /\ cfg.template.found
            /\ cfg.template.webhookData) =>
            /\ cur[w].g.type # "MOCK_SEND"
            /\ cur[w].did.mock = 0
            /\ (cur[w].g.type = "SEND" /\ cfg.template.type = "webhook"
                   /\ pc[w] \in {"increment", "next", "done"}) =>
                  /\ cur[w].did.send = 1
                  /\ cur[w].did.status = 0
                  /\ delivered[<< cur[w].job.id, cur[w].job.step, "webhook" >>] >= 1
                  /\ \A ch \in AllChannels \ {"webhook"} :
                        delivered[<< cur[w].job.id, cur[w].job.step, ch >>] = 0

C38_Witness ==
    \E w \in Workers :
        /\ cfg.mock
        /\ cfg.template.webhookData
        /\ cfg.template.type = "webhook"
        /\ pc[w] = "done"
        /\ cur[w].g.type = "SEND"
        /\ cur[w].did.send = 1
        /\ delivered[<< cur[w].job.id, cur[w].job.step, "webhook" >>] = 1

Context(j) ==
    [id |-> j.id, customer |-> j.customer, step |-> j.step,
     messageSent |-> j.messageSent, event |-> j.event, branch |-> j.branch]

\* the jobs this step adds to a queue
Added == (queue' \cup otherQueue') \ (queue \cup otherQueue)

\* worker w resolves the next step and hands a job to its queue in this step
HandsOver(w) ==
    /\ pc[w] = "next"
    /\ cur'[w].did.enqueue = cur[w].did.enqueue + 1

\* the processed job's context at the destination step, messageSent set by
\* SEND and MOCK_SEND only
Carried(w) ==
    [Context(cur[w].job) EXCEPT
        !.step = DestinationOf(cur[w].job.step),
        !.messageSent = @ \/ cur[w].g.type \in {"SEND", "MOCK_SEND"}]

\* C28 as stated: the follow-up job has the processed job's context with only
\* step and messageSent changed, the branch index included.
C28_Original ==
    [][\A w \in Workers :
         HandsOver(w) =>
            /\ \E j \in queue' \cup otherQueue' : Context(j) = Carried(w)
            /\ \A j \in Added : Context(j) = Carried(w)]_vars

\* C28, amended: the follow-up job has the owner, journey, session, customer
\* and triggering event of the processed job, the destination as its step and
\* the processed job's location with messageSent set by SEND and MOCK_SEND
\* only; the branch index is not carried over.
C28_FollowUpContext ==
    [][\A w \in Workers :
         HandsOver(w) =>
            LET carried == [Carried(w) EXCEPT !.branch = Undefined]
            IN  /\ \E j \in queue' \cup otherQueue' : Context(j) = carried
                /\ \A j \in Added : Context(j) = carried]_vars

C28_Witness ==
    \E w \in Workers :
        /\ pc[w] = "done"
        /\ cur[w].g.type = "MOCK_SEND"
        /\ cur[w].did.enqueue = 1
        /\ cur[w].job.event = "event"
        /\ ~cur[w].job.messageSent
        /\ \E j \in otherQueue :
              /\ j.id = cur[w].job.id
              /\ j.customer = cur[w].job.customer
              /\ j.step = DestinationStep
              /\ j.event = "event"
              /\ j.messageSent

\* the queue each step type has of its own
QueueOfType ==
    [START |-> "{start.step}", EXPERIMENT |-> "{experiment.step}",
     LOOP |-> "{jump.to.step}", EXIT |-> "{exit.step}",
     MULTISPLIT |-> "{multisplit.step}", MESSAGE |-> "{message.step}"]

\* C29: a job handed on sits on the queue of its step's type and on no other:
\* the queue is that of the type, the queues of two types differ, and the job
\* is not on a second queue.
C29_OneQueueOfTheType ==
    /\ \A j \in queue \cup otherQueue :
          /\ StepTypeOf(j.step) \in DOMAIN QueueOfType
          /\ j.on = QueueOfType[StepTypeOf(j.step)]
          /\ \A t \in DOMAIN QueueOfType :
                t # StepTypeOf(j.step) => j.on # QueueOfType[t]
          /\ (j \in queue) = (j.on = "{message.step}")
          /\ \A k \in queue \cup otherQueue : Context(k) = Context(j) => k.on = j.on
    /\ queue \cap otherQueue = {}

C29_Witness ==
    /\ cfg.destType = "LOOP"
    /\ \E j \in otherQueue :
          /\ j.step = DestinationStep
          /\ j.on = "{jump.to.step}"
    /\ \A j \in queue \cup otherQueue : j.on # "{start.step}"

(***************************************************************************)
(* The lock at the end of the handler                                      *)
(***************************************************************************)
\* C31: an execution that returned has either unlocked once and handed over
\* no next-step job, or handed over one next-step job and not unlocked.
C31_UnlockXorHandOver ==
    \A w \in Workers :
        pc[w] = "done" =>
            \/ cur[w].did.unlock = 1 /\ cur[w].did.enqueue = 0
            \/ cur[w].did.unlock = 0 /\ cur[w].did.enqueue = 1

C31_Witness ==
    \E w, v \in Workers :
        /\ pc[w] = "done"
        /\ cur[w].did.enqueue = 1
        /\ cur[w].did.unlock = 0
        /\ pc[v] = "done"
        /\ cur[v].did.unlock = 1
        /\ cur[v].did.enqueue = 0

\* C36: the step in which the handler releases the lock leaves the location
\* unlocked at the destination step when the destination is timer-class, and
\* at the processed step on LIMIT_HOLD, on a requeue and on a missing
\* destination.
C36_StepAtRelease ==
    [][\A w \in Workers :
         (pc[w] \in {"deliver", "unlock", "next"}
             /\ cur'[w].did.unlock = cur[w].did.unlock + 1) =>
            LET job == cur[w].job
                dest == DestinationOf(job.step)
                timer == /\ pc[w] = "next"
                         /\ dest # NoStep
                         /\ StepTypeOf(dest) \in
                               {"TIME_DELAY", "TIME_WINDOW", "WAIT_UNTIL_BRANCH"}
            IN  /\ ~location'[job.customer].locked
                /\ location'[job.customer].step = IF timer THEN dest ELSE job.step
                /\ pc[w] = "deliver" => cur[w].g.type = "LIMIT_HOLD"
                /\ pc[w] = "unlock" => cur[w].g.type \in {"QUIET_REQUEUE", "LIMIT_REQUEUE"}
                /\ pc[w] = "next" => (timer \/ dest = NoStep)]_vars

C36_Witness ==
    \E w \in Workers :
        /\ pc[w] = "done"
        /\ cur[w].g.type = "QUIET_REQUEUE"
        /\ cur[w].did.unlock = 1
        /\ ~location[cur[w].job.customer].locked
        /\ location[cur[w].job.customer].step = MessageStep
        /\ DestinationOf(MessageStep) = DestinationStep

(***************************************************************************)
(* End to end                                                              *)
(***************************************************************************)
\* the handler returned for a job of customer c
HandlerDone(c) == \E w \in Workers : pc[w] = "done" /\ cur[w].job.customer = c

\* customer c rests, unlocked, at the TimeDelay step and no timer runs yet
AtRestAtDelay(c) ==
    /\ location[c].step = DestinationStep
    /\ ~location[c].locked
    /\ \A j \in otherQueue : j.customer # c

\* a delayed job for the TimeDelay step and customer c, due one delay from now
DelayedJobFor(c) ==
    \E j \in otherQueue :
        /\ j.customer = c
        /\ j.step = DestinationStep
        /\ j.runAt = now + DelayMs

\* customer c left the journey: the location rests, unlocked, at the Exit step
Finalized(c) == location[c].step = LastStep /\ ~location[c].locked

\* C12: with quiet hours and both limits disabled and a TimeDelay as the
\* destination, every job resolves SEND, a handler that returns has released
\* the lock and enqueued nothing itself, the customer at rest at the TimeDelay
\* step gets a delayed job for the configured delay, and the customer of a
\* returned handler reaches Exit.
C12_TimeDelayEndToEnd ==
    /\ [](\A w \in Workers :
            /\ PastGate(w) => cur[w].g.type = "SEND"
            /\ pc[w] = "done" =>
                  /\ cur[w].did.send = 1
                  /\ cur[w].did.unlock = 1
                  /\ cur[w].did.enqueue = 0)
    /\ \A c \in Customers : (HandlerDone(c) /\ AtRestAtDelay(c)) ~> DelayedJobFor(c)
    /\ \A c \in Customers : HandlerDone(c) ~> Finalized(c)

C12_Witness ==
    \E c \in Customers :
        /\ Finalized(c)
        /\ c \in sentTo
        /\ now >= BaseTime + DelayMs

(***************************************************************************)
(* The gate on its own: one job, no other worker, inputs drawn from        *)
(* bounded sets                                                            *)
(***************************************************************************)
GateTimes == { <<0, 0>>, <<6, 0>>, <<22, 0>> }
GateOffsets == { 0, 330 }
GateMinutes == { 0, 30, 360, 990, 1410, 1439 }
GateMillis == { 0, 30000, 59999 }
GateInstants ==
    { d * MsPerDay + m * MsPerMin + ms :
        d \in 0..MaxDay, m \in GateMinutes, ms \in GateMillis }
GateQuiet ==
    { QuietOff } \cup
    [ enabled : {TRUE}, startTime : GateTimes, endTime : GateTimes,
      fallbackBehavior : FallbackBehaviors ]
\* a limit and the count its check reads
GateLimits == { << Limit(FALSE, 1), 0 >>, << Limit(TRUE, 1), 0 >>, << Limit(TRUE, 1), 1 >> }

\* the fields of job.data that differ from one job of the journey to another:
\* a first job of a customer, and a job of a customer already messaged
GateJobs ==
    { [customer |-> FirstCustomer, messageSent |-> FALSE, event |-> "event"],
      [customer |-> CHOOSE c \in Customers : c # FirstCustomer, messageSent |-> TRUE,
       event |-> Undefined] }

GateInputs ==
    { [js |-> Settings(q, e[1], m[1]), tz |-> tz, t |-> t, count |-> e[2],
       sends |-> m[2], mock |-> mock, webhookData |-> wd, job |-> j] :
        q \in GateQuiet, e \in GateLimits, m \in GateLimits, tz \in GateOffsets,
        t \in GateInstants, mock \in BOOLEAN, wd \in BOOLEAN, j \in GateJobs }

\* a wrong variant of Gate: the customers-messaged check is left out for a
\* customer already messaged
Gate_skipsMessaged(in) ==
    MockStage(
        ByMinuteStage(
            IF in.job.messageSent
            THEN QuietHoursStage(GateStart, in.js, in.tz, in.t)
            ELSE CustomersMessagedStage(
                    QuietHoursStage(GateStart, in.js, in.tz, in.t), in.js, in.count),
            in.js, [minute |-> in.t \div MsPerMin, count |-> in.sends], in.t),
        in.mock, [found |-> TRUE, webhookData |-> in.webhookData])

\* lines 236-346 for one job, evaluated at instant in.t
Gate(in) ==
    MockStage(
        ByMinuteStage(
            CustomersMessagedStage(
                QuietHoursStage(GateStart, in.js, in.tz, in.t), in.js, in.count),
            in.js, [minute |-> in.t \div MsPerMin, count |-> in.sends], in.t),
        in.mock, [found |-> TRUE, webhookData |-> in.webhookData])

GateInit ==
    /\ now = BaseTime
    /\ ticks = 0
    /\ cfg = Config(Settings(QuietOff, Limit(FALSE, 1), Limit(FALSE, 1)), 0, FALSE, "EXIT")
    /\ isStopped = FALSE
    /\ isPaused = FALSE
    /\ queue = {}
    /\ otherQueue = {}
    /\ location = [c \in Customers |->
                     [step |-> NoStep, locked |-> FALSE, messageSent |-> FALSE]]
    /\ customersMessaged = 0
    /\ minuteCounter = [minute |-> 0, count |-> 0]
    /\ pc = [w \in Workers |-> "idle"]
    /\ cur = [w \in Workers |-> NoCur]
    /\ admitted = 0
    /\ redelivered = 0
    /\ doneSend = {}
    /\ passes = [minute |-> 0, count |-> 0]
    /\ sentTo = {}
    /\ gpc = "input"
    /\ freeEmailsCount = NoQuota
    /\ delivered = [key \in DeliveryKeys |-> 0]
    /\ gin \in GateInputs
    /\ gout = GateStart

GateEval ==
    /\ gpc = "input"
    /\ gout' = Gate(gin)
    /\ gpc' = "done"
    /\ UNCHANGED << now, ticks, cfg, isStopped, isPaused, workerVars, historyVars, gin,
                    sendVars >>

GateNext == GateEval

GateSpec == GateInit /\ [][GateNext]_vars

(***************************************************************************)
(* Quiet hours                                                             *)
(***************************************************************************)
UtcStart(in) == convertTimeToUTC(in.js.quietHours.startTime, in.tz)
UtcEnd(in) == convertTimeToUTC(in.js.quietHours.endTime, in.tz)

\* quiet hours are enabled and the UTC time of day of in.t is in [start, end)
InQuietWindow(in) ==
    /\ in.js.quietHours.enabled
    /\ isWithinInterval(UtcStart(in), UtcEnd(in),
                        << getUTCHours(in.t), getUTCMinutes(in.t) >>)

\* the window's end on the UTC date of in.t
EndToday(in) == setUTCHours(in.t, UtcEnd(in)[1], UtcEnd(in)[2])

\* C4: with quiet hours enabled and the UTC time of day inside [startTime,
\* endTime), the gate outcome is QUIET_REQUEUE or QUIET_ABORT, whatever the
\* limits and the mock flag.
C4_QuietNeverSends ==
    (gpc = "done" /\ InQuietWindow(gin)) =>
        gout.type \in {"QUIET_REQUEUE", "QUIET_ABORT"}

\* C9: when quiet hours apply, requeueTime is the window's end on the current
\* UTC date if that is strictly after now, else one day later; so it is
\* strictly after now.
C9_QuietRequeueTime ==
    (gpc = "done" /\ gout.type \in {"QUIET_REQUEUE", "QUIET_ABORT"}) =>
        /\ gout.requeueTime =
              IF EndToday(gin) > gin.t THEN EndToday(gin) ELSE EndToday(gin) + MsPerDay
        /\ gout.requeueTime > gin.t

\* the outcome after the quiet-hours stage alone
AfterQuiet(in) == QuietHoursStage(GateStart, in.js, in.tz, in.t)

\* C27: inside the quiet window Abort gives QUIET_ABORT and every other
\* fallback value gives QUIET_REQUEUE; with quiet hours disabled or the UTC
\* time of day outside the window the stage leaves SEND and no requeueTime.
C27_FallbackMapping ==
    gpc = "done" =>
        IF InQuietWindow(gin)
        THEN AfterQuiet(gin).type =
                IF gin.js.quietHours.fallbackBehavior = "Abort"
                THEN "QUIET_ABORT" ELSE "QUIET_REQUEUE"
        ELSE AfterQuiet(gin) = [type |-> "SEND", requeueTime |-> NoTime]

\* C30: a job requeued for quiet hours is outside the quiet window when it is
\* attempted again at its requeueTime.
C30_RequeueLeavesWindow ==
    (gpc = "done" /\ gout.type = "QUIET_REQUEUE") =>
        QuietHoursStage(GateStart, gin.js, gin.tz, gout.requeueTime).type = "SEND"

(***************************************************************************)
(* Order of the gate                                                       *)
(***************************************************************************)
\* the outcome after the customers-messaged stage
AfterCustomers(in) == CustomersMessagedStage(AfterQuiet(in), in.js, in.count)

\* C26: the outcome is one of six values, decided in the order quiet hours,
\* customers messaged, per minute, mock, each stage only while the outcome is
\* SEND: the store is not asked for a job in quiet hours, the per-minute count
\* is not asked for a held job, and a disabled limit is never asked.
C26_GateOrder ==
    gpc = "done" =>
        LET q == AfterQuiet(gin)
            holds == gin.js.maxEntries.enabled /\ gin.count >= gin.js.maxEntries.max
            waits == gin.js.maxMessageSends.enabled
                        /\ gin.sends >= gin.js.maxMessageSends.max
        IN  /\ gout.type \in {"SEND", "QUIET_REQUEUE", "QUIET_ABORT", "LIMIT_REQUEUE",
                              "LIMIT_HOLD", "MOCK_SEND"}
            /\ gout.type =
                 IF q.type # "SEND" THEN q.type
                 ELSE IF holds THEN "LIMIT_HOLD"
                 ELSE IF waits THEN "LIMIT_REQUEUE"
                 ELSE IF gin.mock /\ ~gin.webhookData THEN "MOCK_SEND"
                 ELSE "SEND"
            /\ q.type # "SEND" =>
                  /\ gout = q
                  /\ ~CustomersMessagedQueried(q, gin.js)
                  /\ ~ByMinuteQueried(AfterCustomers(gin), gin.js)
            /\ AfterCustomers(gin).type = "LIMIT_HOLD" =>
                  ~ByMinuteQueried(AfterCustomers(gin), gin.js)
            /\ ~gin.js.maxEntries.enabled => ~CustomersMessagedQueried(q, gin.js)
            /\ ~gin.js.maxMessageSends.enabled =>
                  ~ByMinuteQueried(AfterCustomers(gin), gin.js)

C26_Witness ==
    /\ gpc = "done"
    /\ AfterQuiet(gin).type = "QUIET_REQUEUE"
    /\ gin.js.maxEntries.enabled
    /\ gin.count >= gin.js.maxEntries.max
    /\ gin.js.maxMessageSends.enabled
    /\ gin.sends >= gin.js.maxMessageSends.max
    /\ gin.mock
    /\ ~gin.webhookData
    /\ gout.type = "QUIET_REQUEUE"

(***************************************************************************)
(* Per-minute limit                                                        *)
(***************************************************************************)
SecondsOf(t) == (t % MsPerMin) \div 1000

C32_RequeueDelayBounded ==
    (gpc = "done" /\ gout.type \in {"QUIET_REQUEUE", "LIMIT_REQUEUE"}) =>
        /\ gout.requeueTime # NoTime
        /\ gout.requeueTime > gin.t
        /\ gout.type = "QUIET_REQUEUE" => gout.requeueTime - gin.t <= MsPerDay
        /\ gout.type = "LIMIT_REQUEUE" => gout.requeueTime - gin.t <= MsPerMin

=============================================================================
